---- MODULE Spec2Model ----
(***************************************************************************)
(* State-machine model of spider-util: BloomFilter                         *)
(* (src/src/bloom_filter.rs), the selector cache (selector_cache.rs),      *)
(* Request (request.rs) and ExpMovingAverage (metrics.rs), each with its   *)
(* own specification over the shared variables.                            *)
(*                                                                         *)
(* A u64 value is a sequence of four 16-bit limbs, least significant       *)
(* first, so that wrapping 64-bit arithmetic is computed exactly.  A       *)
(* storage word (one u64 of bit_set) is the set of its bit indices that    *)
(* hold 1: 0u64 is {}, w | (1 << b) is w \cup {b}, and                     *)
(* (w & (1 << b)) == 0 is b \notin w.                                      *)
(*                                                                         *)
(* The two hashers (std DefaultHasher and seahash::hash) are deterministic *)
(* functions that live outside the repository.  A behaviour fixes them in  *)
(* Init as the tables hash1 and hash2, drawn from a family of multiplicative *)
(* hashes, and never changes them.                                         *)
(***************************************************************************)
EXTENDS Integers, Sequences, FiniteSets, TLC

\* ---------------------------------------------------------------- bounds
\* Number of distinct keys the callers use.
MaxKeys == 2
\* Largest hash_functions passed to new.
MaxHashCount == 3
\* Largest number of storage words a constructed filter is given room for.
MaxWords == 3
\* Number of hasher tables a behaviour may start with.
NumSeeds == 3
\* Number of threads that call into shared state at the same time.
NumThreads == 2
\* Largest retry counter reached by increments from a small value.
MaxRetries == 3
\* Last tick of the clock, and largest event_count explored.
MaxClock == 5
MaxEvents == 3

\* ------------------------------------------------------- program constants
\* Width of one storage word (Vec<u64>), the 64 of lines 62, 74, 75, 88, 89.
WordBits == 64

Keys == 1..MaxKeys
HashCounts == 0..MaxHashCount
ProbeIdx == 0..(MaxHashCount - 1)
\* num_bits arguments given to new: 0, tiny filters, both sides of each
\* word boundary, and filters whose last word is half used.
NumBitsChoices ==
    {0, 1, 3} \cup {WordBits * w + d : w \in 1..(MaxWords - 1), d \in {0, 1, WordBits \div 2}}

\* ------------------------------------------------------------ u64 values
RECURSIVE AddCarry(_, _, _)
\* Carry into limb n of a + b.
AddCarry(a, b, n) ==
    IF n = 1 THEN 0 ELSE (a[n - 1] + b[n - 1] + AddCarry(a, b, n - 1)) \div 65536

\* u64::wrapping_add: (a + b) mod 2^64, the carry out of limb 4 is dropped.
wrapping_add(a, b) ==
    [n \in 1..4 |-> (a[n] + b[n] + AddCarry(a, b, n)) % 65536]

RECURSIVE MulCarry(_, _, _)
\* Carry into limb n of i * h.
MulCarry(i, h, n) ==
    IF n = 1 THEN 0 ELSE (i * h[n - 1] + MulCarry(i, h, n - 1)) \div 65536

\* (i as u64).wrapping_mul(h): (i * h) mod 2^64 for a probe index i.
wrapping_mul(i, h) ==
    [n \in 1..4 |-> (i * h[n] + MulCarry(i, h, n)) % 65536]

RECURSIVE RemFrom(_, _, _)
\* Remainder modulo m of the limbs n..4 of x.
RemFrom(x, m, n) ==
    IF n > 4 THEN 0 ELSE (RemFrom(x, m, n + 1) * 65536 + x[n]) % m

\* Outcome of a remainder with divisor zero: the thread panics.
PanicVal == -1

\* x % m on u64; Rust panics when m is zero.
rem_u64(x, m) == IF m = 0 THEN PanicVal ELSE RemFrom(x, m, 1)

\* ---------------------------------------------------------------- hashers
\* Two odd 64-bit multipliers (limbs, least significant first):
\* 0x9E3779B97F4A7C15 and 2^64 - 59.
HashMulA == <<31765, 32586, 31161, 40503>>
HashMulB == <<65477, 65535, 65535, 65535>>

\* DefaultHasher table number s: the u64 that hasher.finish() gives for item.
\* Table 1 hashes key 1 to 0.
SipTable(s) == [item \in Keys |-> wrapping_mul(item + s - 2, HashMulA)]

\* seahash table number s: the u64 that hash(format!("{}{}", item, i)) gives.
\* The value depends on the item and on the probe index i.
SeaTable(s) ==
    [c \in Keys \X ProbeIdx |->
        wrapping_add(wrapping_mul(c[1] + s, HashMulB),
                     wrapping_mul(2 * c[2] + 1, HashMulA))]

\* All orders (without repetition) of the keys of S.
Orders(S) ==
    {s \in [1..Cardinality(S) -> S] : \A i, j \in 1..Cardinality(S) : i # j => s[i] # s[j]}

\* ------------------------------------------------------------------ state
VARIABLES
    status,          \* "unbuilt", "ready" (new has returned), "panicked"
    bit_set,         \* Vec<u64>: sequence of words
    num_bits,        \* u64
    hash_functions,  \* usize
    hash1,           \* DefaultHasher: key -> u64
    hash2,           \* seahash::hash: (key, i) -> u64
    last,            \* the last call and what it returned
    added,           \* keys whose add has returned
    thr,             \* unsynchronized callers of add: thread -> position in add
    raced,           \* a stale word has been written back over a newer one
    cache,           \* SELECTOR_CACHE: HashMap<String, Selector>
    rw,              \* the RwLock around it: threads reading, thread writing
    cthr,            \* callers of get_cached_selector: thread -> position
    req,             \* a Request (url, method, headers, body, meta)
    rlast,           \* the last Request call and what it returned
    checks,          \* the build has overflow checks (debug) or not (release)
    ema,             \* an ExpMovingAverage (alpha, rate, last_update, event_count)
    clock,           \* the monotonic clock Instant::now() reads, in ticks
    ethr             \* callers of update: thread -> position, count, now

\* The callers that share one filter without a lock.
raceVars == <<thr, raced>>

\* The selector cache and its callers.
cacheVars == <<cache, rw, cthr>>

\* The request under construction.
reqVars == <<req, rlast, checks>>

\* The moving average, the clock and the callers of update.
emaVars == <<ema, clock, ethr>>

\* The filter and its call history.
filterVars == <<status, bit_set, num_bits, hash_functions, hash1, hash2, last, added>>

\* Everything that is not a field of the filter or its call history.
restVars == <<raceVars, cacheVars, reqVars, emaVars>>

vars == <<status, bit_set, num_bits, hash_functions, hash1, hash2, last, added,
          restVars>>

NoCall == [op |-> "none", item |-> 0, ret |-> "none", again |-> FALSE, probes |-> <<>>]

\* ----------------------------------------------------------- BloomFilter
\* ((num_bits as f64 / 64.0).ceil() as usize); exact for num_bits < 2^53.
CeilWords(n) == (n + (WordBits - 1)) \div WordBits

\* usize::max
Max(a, b) == IF a >= b THEN a ELSE b

\* new with the word count rounded down: (num_bits / 64).max(1).
new_bit_set_floor(n) == [w \in 1..Max(n \div WordBits, 1) |-> {}]

\* let size = (...).max(1); vec![0; size]
new_bit_set(n) == [w \in 1..Max(CeilWords(n), 1) |-> {}]

\* get_bit_index reducing modulo the allocated capacity, not num_bits.
get_bit_index_capacity(item, i) ==
    LET h1 == hash1[item]
        h2 == hash2[<<item, i>>]
        combined_hash == wrapping_add(h1, wrapping_mul(i, h2))
    IN  rem_u64(combined_hash, Len(bit_set) * WordBits)

\* get_bit_index: double hashing, reduced modulo num_bits.
get_bit_index(item, i) ==
    LET h1 == hash1[item]
        h2 == hash2[<<item, i>>]
        combined_hash == wrapping_add(h1, wrapping_mul(i, h2))
    IN  rem_u64(combined_hash, num_bits)

\* self.bit_set[bucket_idx] |= 1u64 << bit_idx, with ^= in place of |=.
or_bit_xor(word, bit_idx) ==
    IF bit_idx \in word THEN word \ {bit_idx} ELSE word \cup {bit_idx}

\* self.bit_set[bucket_idx] |= 1u64 << bit_idx, with = in place of |=.
or_bit_assign(word, bit_idx) == {bit_idx}

\* self.bit_set[bucket_idx] |= 1u64 << bit_idx
or_bit(word, bit_idx) == word \cup {bit_idx}

\* (self.bit_set[bucket_idx] & (1u64 << bit_idx)) == 0
bit_is_zero(word, bit_idx) == bit_idx \notin word

RECURSIVE add_loop(_, _, _, _)
\* The loop of add from probe i on: the storage it leaves, whether it
\* panicked, and the indices computed so far.
add_loop(bits, item, i, probes) ==
    IF i >= hash_functions THEN [bits |-> bits, panic |-> FALSE, probes |-> probes]
    ELSE LET index == get_bit_index(item, i)
         IN  IF index = PanicVal
             THEN [bits |-> bits, panic |-> TRUE, probes |-> probes]
             ELSE LET bucket_idx == index \div WordBits
                      bit_idx == index % WordBits
                      next == IF bucket_idx < Len(bits)
                              THEN [bits EXCEPT ![bucket_idx + 1] = or_bit(@, bit_idx)]
                              ELSE bits
                  IN  add_loop(next, item, i + 1, Append(probes, index))

\* add with the loop written as 1..hash_functions.
add_from_one(bits, item) == add_loop(bits, item, 1, <<>>)

\* BloomFilter::add: for i in 0..self.hash_functions
add(bits, item) == add_loop(bits, item, 0, <<>>)

RECURSIVE might_contain_loop(_, _, _, _)
\* The loop of might_contain from probe i on: the value returned ("true",
\* "false" or "panic") and the indices computed so far.
might_contain_loop(bits, item, i, probes) ==
    IF i >= hash_functions THEN [ret |-> "true", probes |-> probes]
    ELSE LET index == get_bit_index(item, i)
         IN  IF index = PanicVal THEN [ret |-> "panic", probes |-> probes]
             ELSE LET bucket_idx == index \div WordBits
                      bit_idx == index % WordBits
                      seen == Append(probes, index)
                  IN  IF bucket_idx >= Len(bits)
                      THEN [ret |-> "false", probes |-> seen]
                      ELSE IF bit_is_zero(bits[bucket_idx + 1], bit_idx)
                           THEN [ret |-> "false", probes |-> seen]
                           ELSE might_contain_loop(bits, item, i + 1, seen)

\* might_contain that answers false on a filter without hash functions.
might_contain_guarded(bits, item) ==
    IF hash_functions = 0 THEN [ret |-> "false", probes |-> <<>>]
    ELSE might_contain_loop(bits, item, 0, <<>>)

\* might_contain with the loop written as 1..hash_functions.
might_contain_from_one(bits, item) == might_contain_loop(bits, item, 1, <<>>)

\* BloomFilter::might_contain: for i in 0..self.hash_functions
might_contain(bits, item) == might_contain_loop(bits, item, 0, <<>>)

\* ---------------------------------------------------------------- actions
\* A thread that is not inside add.
NotInAdd == [pc |-> "idle", item |-> 0, i |-> 0, bucket_idx |-> 0, bit_idx |-> 0, word |-> {}]

\* No unsynchronized callers: the filter has a single owner.
RaceIdle == thr = <<>> /\ raced = FALSE

\* No thread is inside get_cached_selector and the cache is empty.
CacheIdle == cache = <<>> /\ rw = <<>> /\ cthr = <<>>

\* No request has been built.
ReqIdle == req = <<>> /\ rlast = <<>> /\ checks = FALSE

\* No moving average has been built.
EmaIdle == ema = <<>> /\ clock = 0 /\ ethr = <<>>

Init ==
    /\ status = "unbuilt"
    /\ bit_set = <<>>
    /\ num_bits = 0
    /\ hash_functions = 0
    /\ \E s \in 1..NumSeeds : hash1 = SipTable(s) /\ hash2 = SeaTable(s)
    /\ last = NoCall
    /\ added = {}
    /\ RaceIdle /\ CacheIdle /\ ReqIdle /\ EmaIdle

\* BloomFilter::new(n, k)
New(n, k) ==
    /\ status = "unbuilt"
    /\ status' = "ready"
    /\ bit_set' = new_bit_set(n)
    /\ num_bits' = n
    /\ hash_functions' = k
    /\ last' = [NoCall EXCEPT !.op = "new", !.ret = "filter"]
    /\ UNCHANGED <<hash1, hash2, added, restVars>>

\* add that also widens num_bits to the allocated capacity.
AddWidening(item) ==
    /\ status = "ready"
    /\ LET r == add(bit_set, item)
       IN  /\ bit_set' = r.bits
           /\ status' = IF r.panic THEN "panicked" ELSE "ready"
           /\ added' = IF r.panic THEN added ELSE added \cup {item}
           /\ last' = [op |-> "add", item |-> item,
                       ret |-> IF r.panic THEN "panic" ELSE "unit",
                       again |-> item \in added, probes |-> r.probes]
    /\ num_bits' = Len(bit_set) * WordBits
    /\ UNCHANGED <<hash_functions, hash1, hash2, restVars>>

\* BloomFilter::add(item)
Add(item) ==
    /\ status = "ready"
    /\ LET r == add(bit_set, item)
       IN  /\ bit_set' = r.bits
           /\ status' = IF r.panic THEN "panicked" ELSE "ready"
           /\ added' = IF r.panic THEN added ELSE added \cup {item}
           /\ last' = [op |-> "add", item |-> item,
                       ret |-> IF r.panic THEN "panic" ELSE "unit",
                       again |-> item \in added, probes |-> r.probes]
    /\ UNCHANGED <<num_bits, hash_functions, hash1, hash2, restVars>>

\* might_contain that also sets the bits it probed for (test-and-insert).
MightContainInserting(item) ==
    /\ status = "ready"
    /\ LET r == might_contain(bit_set, item)
       IN  /\ status' = IF r.ret = "panic" THEN "panicked" ELSE "ready"
           /\ bit_set' = add(bit_set, item).bits
           /\ last' = [op |-> "might_contain", item |-> item, ret |-> r.ret,
                       again |-> last.op = "might_contain" /\ last.item = item,
                       probes |-> r.probes]
    /\ UNCHANGED <<num_bits, hash_functions, hash1, hash2, added, restVars>>

\* BloomFilter::might_contain(item); again records that the call repeats the
\* call made just before it.
MightContain(item) ==
    /\ status = "ready"
    /\ LET r == might_contain(bit_set, item)
       IN  /\ status' = IF r.ret = "panic" THEN "panicked" ELSE "ready"
           /\ last' = [op |-> "might_contain", item |-> item, ret |-> r.ret,
                       again |-> last.op = "might_contain" /\ last.item = item,
                       probes |-> r.probes]
    /\ UNCHANGED <<bit_set, num_bits, hash_functions, hash1, hash2, added, restVars>>

Next ==
    \/ \E n \in NumBitsChoices, k \in HashCounts : New(n, k)
    \/ \E item \in Keys : Add(item)
    \/ \E item \in Keys : MightContain(item)

Spec == Init /\ [][Next]_vars

TypeOK ==
    /\ status \in {"unbuilt", "ready", "panicked"}
    /\ num_bits \in NumBitsChoices
    /\ hash_functions \in HashCounts
    /\ added \subseteq Keys
    /\ \A w \in 1..Len(bit_set) : bit_set[w] \subseteq 0..(WordBits - 1)

\* ------------------------------------- add without external synchronization
\* BloomFilter::add called by several threads on one filter that no lock
\* guards (add takes &mut self, so only unsafe sharing gets here).  The
\* statement self.bit_set[bucket_idx] |= 1u64 << bit_idx is a plain load of
\* the word followed by a plain store, and steps of other threads may fall
\* between the two.
Threads == 1..NumThreads

\* The filters the threads share: one word partly used, or two words.
RaceNumBits == {3, WordBits + 1}

\* The probe counts of the shared filters.
RaceHashCounts == {1, 2}

RaceInit ==
    /\ status = "ready"
    /\ \E n \in RaceNumBits : num_bits = n /\ bit_set = new_bit_set(n)
    /\ hash_functions \in RaceHashCounts
    /\ \E s \in 1..NumSeeds : hash1 = SipTable(s) /\ hash2 = SeaTable(s)
    /\ last = NoCall
    /\ added = {}
    /\ thr = [t \in Threads |-> NotInAdd]
    /\ raced = FALSE
    /\ CacheIdle /\ ReqIdle /\ EmaIdle

\* The key thread t adds.
KeyOf(t) == ((t - 1) % MaxKeys) + 1

\* Thread t enters add(KeyOf(t)): for i in 0..self.hash_functions.  Each
\* thread makes one call.
RaceCall(t) ==
    /\ thr[t].pc = "idle"
    /\ thr' = [thr EXCEPT ![t] = [NotInAdd EXCEPT !.pc = "load", !.item = KeyOf(t)]]
    /\ UNCHANGED <<status, bit_set, num_bits, hash_functions, hash1, hash2, last,
                   added, raced, cacheVars, reqVars, emaVars>>

\* Thread t computes the index of probe i and loads the word it is in; an
\* index beyond the storage is skipped.
RaceLoad(t) ==
    /\ thr[t].pc = "load"
    /\ LET index == get_bit_index(thr[t].item, thr[t].i)
           bucket_idx == index \div WordBits
           bit_idx == index % WordBits
       IN  IF bucket_idx < Len(bit_set)
           THEN thr' = [thr EXCEPT ![t].pc = "store",
                                   ![t].bucket_idx = bucket_idx,
                                   ![t].bit_idx = bit_idx,
                                   ![t].word = bit_set[bucket_idx + 1]]
           ELSE thr' = [thr EXCEPT ![t].i = @ + 1,
                                   ![t].pc = IF thr[t].i + 1 >= hash_functions
                                             THEN "done" ELSE "load"]
    /\ UNCHANGED <<status, bit_set, num_bits, hash_functions, hash1, hash2, last,
                   added, raced, cacheVars, reqVars, emaVars>>

\* Thread t stores the word it loaded, with its bit set, and moves to the next
\* probe or returns.
RaceStore(t) ==
    /\ thr[t].pc = "store"
    /\ bit_set' = [bit_set EXCEPT ![thr[t].bucket_idx + 1] =
                        or_bit(thr[t].word, thr[t].bit_idx)]
    /\ raced' = (raced \/ bit_set[thr[t].bucket_idx + 1] # thr[t].word)
    /\ thr' = [thr EXCEPT ![t].i = @ + 1,
                          ![t].pc = IF thr[t].i + 1 >= hash_functions
                                    THEN "done" ELSE "load"]
    /\ added' = IF thr[t].i + 1 >= hash_functions
                THEN added \cup {thr[t].item} ELSE added
    /\ UNCHANGED <<status, num_bits, hash_functions, hash1, hash2, last,
                   cacheVars, reqVars, emaVars>>

RaceNext ==
    \/ \E t \in Threads : RaceCall(t)
    \/ \E t \in Threads : RaceLoad(t)
    \/ \E t \in Threads : RaceStore(t)

SpecRace == RaceInit /\ [][RaceNext]_vars

\* ------------------------------------------------------- selector cache
\* src/src/selector_cache.rs.  Selector::parse belongs to the scraper crate:
\* it is a fixed function from strings to Ok(selector) or Err.
\* The strings the callers pass: two that parse and two that do not.
SelectorStrs == {"a[href]", "div.content > p", "a[", "div >"}

\* The strings Selector::parse accepts.
ParsableStrs == {"a[href]", "div.content > p"}

\* The Selector that Selector::parse(s) compiles.
Compiled(s) == [selector |-> s]

\* Selector::parse(selector_str)
selector_parse(s) ==
    IF s \in ParsableStrs THEN [ok |-> TRUE, selector |-> Compiled(s)]
    ELSE [ok |-> FALSE, selector |-> Compiled("")]

\* HashMap::new()
EmptyMap == [x \in {} |-> x]

\* HashMap::insert(k, v): the entry for k is added or replaced.
map_insert(m, k, v) == [x \in DOMAIN m \cup {k} |-> IF x = k THEN v ELSE m[x]]

\* Option<Selector>: None, Some(selector), and no value returned yet.
None == [some |-> FALSE, selector |-> Compiled("")]
Some(sel) == [some |-> TRUE, selector |-> sel]
NotInCall == [pc |-> "idle", s |-> "", selector |-> Compiled(""), ret |-> None]

\* The filter fields while no filter is in use.
FilterIdle ==
    /\ status = "unbuilt" /\ bit_set = <<>> /\ num_bits = 0 /\ hash_functions = 0
    /\ hash1 = SipTable(1) /\ hash2 = SeaTable(1)
    /\ last = NoCall /\ added = {}

\* static SELECTOR_CACHE = Lazy::new(|| RwLock::new(HashMap::new()))
CacheInit ==
    /\ cache = EmptyMap
    /\ rw = [readers |-> {}, writer |-> 0]
    /\ cthr = [t \in Threads |-> NotInCall]
    /\ FilterIdle /\ RaceIdle /\ ReqIdle /\ EmaIdle

\* Thread t calls get_cached_selector(s).
CacheCall(t, s) ==
    /\ cthr[t].pc \in {"idle", "returned"}
    /\ cthr' = [cthr EXCEPT ![t] = [NotInCall EXCEPT !.pc = "read_lock", !.s = s]]
    /\ UNCHANGED <<cache, rw, filterVars, raceVars, reqVars, emaVars>>

\* let cache = SELECTOR_CACHE.read(): waits while a writer holds the lock.
CacheReadLock(t) ==
    /\ cthr[t].pc = "read_lock"
    /\ rw.writer = 0
    /\ rw' = [rw EXCEPT !.readers = @ \cup {t}]
    /\ cthr' = [cthr EXCEPT ![t].pc = "read_get"]
    /\ UNCHANGED <<cache, filterVars, raceVars, reqVars, emaVars>>

\* if let Some(cached) = cache.get(selector_str) { return Some(cached.clone()) }
\* The read guard is dropped on return and at the end of the block.
CacheReadGet(t) ==
    /\ cthr[t].pc = "read_get"
    /\ rw' = [rw EXCEPT !.readers = @ \ {t}]
    /\ IF cthr[t].s \in DOMAIN cache
       THEN cthr' = [cthr EXCEPT ![t].pc = "returned",
                                 ![t].ret = Some(cache[cthr[t].s])]
       ELSE cthr' = [cthr EXCEPT ![t].pc = "parse"]
    /\ UNCHANGED <<cache, filterVars, raceVars, reqVars, emaVars>>

\* match Selector::parse(selector_str) { Ok(selector) => ..., Err(_) => None }
CacheParse(t) ==
    /\ cthr[t].pc = "parse"
    /\ LET r == selector_parse(cthr[t].s)
       IN  IF r.ok
           THEN cthr' = [cthr EXCEPT ![t].pc = "write_lock", ![t].selector = r.selector]
           ELSE cthr' = [cthr EXCEPT ![t].pc = "returned", ![t].ret = None]
    /\ UNCHANGED <<cache, rw, filterVars, raceVars, reqVars, emaVars>>

\* let mut cache = SELECTOR_CACHE.write(): waits for readers and writer.
CacheWriteLock(t) ==
    /\ cthr[t].pc = "write_lock"
    /\ rw.writer = 0 /\ rw.readers = {}
    /\ rw' = [rw EXCEPT !.writer = t]
    /\ cthr' = [cthr EXCEPT ![t].pc = "write_get"]
    /\ UNCHANGED <<cache, filterVars, raceVars, reqVars, emaVars>>

\* get_cached_selector without the re-check under the write lock.
CacheWriteGetNoRecheck(t) ==
    /\ cthr[t].pc = "write_get"
    /\ cthr' = [cthr EXCEPT ![t].pc = "insert"]
    /\ UNCHANGED <<cache, rw, filterVars, raceVars, reqVars, emaVars>>

\* The re-check under the write lock: an entry found is returned and the
\* guard dropped.
CacheWriteGet(t) ==
    /\ cthr[t].pc = "write_get"
    /\ IF cthr[t].s \in DOMAIN cache
       THEN /\ cthr' = [cthr EXCEPT ![t].pc = "returned",
                                    ![t].ret = Some(cache[cthr[t].s])]
            /\ rw' = [rw EXCEPT !.writer = 0]
       ELSE /\ cthr' = [cthr EXCEPT ![t].pc = "insert"]
            /\ rw' = rw
    /\ UNCHANGED <<cache, filterVars, raceVars, reqVars, emaVars>>

\* get_cached_selector that drops the compiled selector instead of storing it.
CacheInsertForgotten(t) ==
    /\ cthr[t].pc = "insert"
    /\ cthr' = [cthr EXCEPT ![t].pc = "unlock"]
    /\ UNCHANGED <<cache, rw, filterVars, raceVars, reqVars, emaVars>>

\* cache.insert(selector_str.to_string(), selector.clone())
CacheInsert(t) ==
    /\ cthr[t].pc = "insert"
    /\ cache' = map_insert(cache, cthr[t].s, cthr[t].selector)
    /\ cthr' = [cthr EXCEPT ![t].pc = "unlock"]
    /\ UNCHANGED <<rw, filterVars, raceVars, reqVars, emaVars>>

\* The write guard is dropped at the end of the block; Some(selector).
CacheUnlock(t) ==
    /\ cthr[t].pc = "unlock"
    /\ rw' = [rw EXCEPT !.writer = 0]
    /\ cthr' = [cthr EXCEPT ![t].pc = "returned", ![t].ret = Some(cthr[t].selector)]
    /\ UNCHANGED <<cache, filterVars, raceVars, reqVars, emaVars>>

CacheNext ==
    \/ \E t \in Threads, s \in SelectorStrs : CacheCall(t, s)
    \/ \E t \in Threads : CacheReadLock(t)
    \/ \E t \in Threads : CacheReadGet(t)
    \/ \E t \in Threads : CacheParse(t)
    \/ \E t \in Threads : CacheWriteLock(t)
    \/ \E t \in Threads : CacheWriteGet(t)
    \/ \E t \in Threads : CacheInsert(t)
    \/ \E t \in Threads : CacheUnlock(t)

SpecCache == CacheInit /\ [][CacheNext]_vars

\* ---------------------------------------------------------------- request
\* src/src/request.rs.  A text (String, &str, byte slice) is a sequence of
\* byte blocks, and concatenation of texts is \o.
T(block) == <<block>>

\* Url values (already parsed) and the methods the callers use.
Urls == {T("http://a.test/"), T("http://a.test/") \o T("x")}
Methods == {T("GET"), T("POST"), T("PUT")}

\* serde_json::Value: Null, String(s), Number(u64 n).
Zero64 == <<0, 0, 0, 0>>
JNull == [t |-> "null", s |-> <<>>, n |-> Zero64]
JStr(x) == [t |-> "str", s |-> x, n |-> Zero64]
JU64(n) == [t |-> "u64", s |-> <<>>, n |-> n]

\* Value::as_u64: Some(n) for a non-negative integer, None otherwise.
as_u64(v) == IF v.t = "u64" THEN [some |-> TRUE, n |-> v.n]
             ELSE [some |-> FALSE, n |-> Zero64]

RECURSIVE Decimal(_)
\* The decimal digits of a natural number.
Decimal(k) ==
    LET digit == T(<<"0", "1", "2", "3", "4", "5", "6", "7", "8", "9">>[(k % 10) + 1])
    IN  IF k < 10 THEN digit ELSE Decimal(k \div 10) \o digit

\* serde_json::to_string(value), for strings without escapes and for numbers
\* below 2^16.
json_to_string(v) ==
    CASE v.t = "null" -> T("null")
      [] v.t = "str" -> T("\"") \o v.s \o T("\"")
      [] OTHER -> Decimal(v.n[1])

\* Body: Json(Value), Form(DashMap<String, String>), Bytes(Bytes), and the
\* None of Option<Body>.  A DashMap is its key/value pairs kv together with
\* the order in which iter() visits the keys; the order comes from the
\* map's own RandomState hasher and differs between maps.
NoBody == [kind |-> "None", json |-> JNull, kv |-> EmptyMap, order |-> <<>>, bytes |-> <<>>]
BodyJson(v) == [NoBody EXCEPT !.kind = "Json", !.json = v]
BodyForm(kv, order) == [NoBody EXCEPT !.kind = "Form", !.kv = kv, !.order = order]
BodyBytes(b) == [NoBody EXCEPT !.kind = "Bytes", !.bytes = b]

\* The values the callers pass as bodies.
JsonVals == {JNull, JStr(T("a"))}
FormMaps == { (T("a") :> T("1")), (T("a") :> T("1")) @@ (T("b") :> T("2")) }
FormVals == UNION {{BodyForm(kv, o) : o \in Orders(DOMAIN kv)} : kv \in FormMaps}
BytesVals == {T("a") \o T("1")}
JsonBodies == {BodyJson(v) : v \in JsonVals}
BytesBodies == {BodyBytes(b) : b \in BytesVals}

\* The meta keys and values the callers pass to with_meta: u32::MAX,
\* 2^32 + 1, 1 and a string.
RETRY_ATTEMPTS_KEY == "retry_attempts"
MetaArgs == {<<RETRY_ATTEMPTS_KEY, JU64(<<65535, 65535, 0, 0>>)>>,
             <<RETRY_ATTEMPTS_KEY, JU64(<<1, 0, 1, 0>>)>>,
             <<RETRY_ATTEMPTS_KEY, JStr(T("a"))>>,
             <<"depth", JU64(<<1, 0, 0, 0>>)>>}

\* Header names and values passed to with_header; HeaderName::from_bytes
\* rejects a name with a space.
HeaderArgs == {<<"accept", "*/*">>, <<"bad name", "v">>}
header_name_ok(name) == name # "bad name"

\* Request::new(url)
request_new(url) ==
    [url |-> url, method |-> T("GET"), headers |-> EmptyMap, body |-> NoBody,
     meta |-> EmptyMap]

\* with_method that keeps a method set earlier.
with_method_keep(r, method) == IF r.method = T("GET") THEN [r EXCEPT !.method = method] ELSE r

\* Request::with_method
with_method(r, method) == [r EXCEPT !.method = method]

\* Request::with_body: self.body = Some(body); self.with_method(Method::POST)
with_body(r, body) == with_method([r EXCEPT !.body = body], T("POST"))

\* Request::with_json / with_form / with_bytes
with_json(r, json) == with_body(r, BodyJson(json))
with_form(r, form) == with_body(r, form)
with_bytes(r, bytes) == with_body(r, BodyBytes(bytes))

\* Request::with_meta: self.meta.insert(key, value)
with_meta(r, key, value) == [r EXCEPT !.meta = map_insert(@, key, value)]

\* u64 as u32: the low 32 bits, as two limbs.
as_u32(n) == <<n[1], n[2]>>

\* get_retry_attempts: meta.get(KEY).and_then(as_u64).unwrap_or(0) as u32
get_retry_attempts(r) ==
    IF RETRY_ATTEMPTS_KEY \in DOMAIN r.meta
    THEN LET v == as_u64(r.meta[RETRY_ATTEMPTS_KEY])
         IN  IF v.some THEN as_u32(v.n) ELSE <<0, 0>>
    ELSE <<0, 0>>

\* current_attempts + 1 on u32: the sum, and whether it overflowed.
u32_add_one(c) ==
    LET lo == (c[1] + 1) % 65536
        hi == (c[2] + (c[1] + 1) \div 65536) % 65536
    IN  [sum |-> <<lo, hi>>, overflow |-> c = <<65535, 65535>>]

\* increment_retry_attempts: the request it leaves, and whether it panicked
\* (attempt to add with overflow, in a build with overflow checks).
increment_retry_attempts(r, overflow_checks) ==
    LET current_attempts == get_retry_attempts(r)
        next == u32_add_one(current_attempts)
    IN  IF next.overflow /\ overflow_checks
        THEN [r |-> r, panic |-> TRUE]
        ELSE [r |-> [r EXCEPT !.meta = map_insert(@, RETRY_ATTEMPTS_KEY,
                                            JU64(<<next.sum[1], next.sum[2], 0, 0>>))],
              panic |-> FALSE]

\* The byte blocks, in the order that gives each its code.
Alphabet == <<"http://a.test/", "x", "GET", "POST", "PUT", "a", "b", "1", "2",
              "null", "\"", "0", "3", "4", "5", "6", "7", "8", "9">>
Code(block) == CHOOSE i \in 1..Len(Alphabet) : Alphabet[i] = block

\* XxHash64 (twox_hash) is external: a rolling hash over the bytes written
\* stands for it.  XxHash64::default() starts from seed 0.
XxMul == 31
XxMod == 65521
XxHash64_default == 0

RECURSIVE hasher_write(_, _)
\* hasher.write(bytes)
hasher_write(h, bytes) ==
    IF bytes = <<>> THEN h
    ELSE hasher_write((h * XxMul + Code(Head(bytes))) % XxMod, Tail(bytes))

RECURSIVE LowerHex(_)
\* format!("{:x}", n)
LowerHex(k) ==
    LET digit == T(<<"0", "1", "2", "3", "4", "5", "6", "7", "8", "9",
                     "a", "b", "c", "d", "e", "f">>[(k % 16) + 1])
    IN  IF k < 16 THEN digit ELSE LowerHex(k \div 16) \o digit

RECURSIVE form_string(_, _)
\* The loop over form_val.iter(): key then value of each entry, in the
\* map's iteration order.
form_string(kv, order) ==
    IF order = <<>> THEN <<>>
    ELSE Head(order) \o kv[Head(order)] \o form_string(kv, Tail(order))

\* The bytes fingerprint writes for the body.
body_bytes(body) ==
    CASE body.kind = "None" -> <<>>
      [] body.kind = "Json" -> json_to_string(body.json)
      [] body.kind = "Form" -> form_string(body.kv, body.order)
      [] OTHER -> body.bytes

\* Request::fingerprint
fingerprint(r) ==
    LET h1 == hasher_write(XxHash64_default, r.url)
        h2 == hasher_write(h1, r.method)
        h3 == hasher_write(h2, body_bytes(r.body))
    IN  LowerHex(h3)

\* ------------------------------------------------ Serialize / Deserialize
\* A serialized body (serde_json): null, or a map with the one entry
\* key: value, where the value is a JSON text (Json), an object of string
\* pairs (Form) or an array of byte values (Bytes).
NullDoc == [null |-> TRUE, key |-> "", text |-> <<>>, object |-> EmptyMap, array |-> <<>>]
EntryDoc(key, text, object, array) ==
    [null |-> FALSE, key |-> key, text |-> text, object |-> object, array |-> array]

\* Bytes as an array of numbers, and back.
bytes_to_array(bytes) == [n \in 1..Len(bytes) |-> Code(bytes[n])]
array_to_bytes(array) == [n \in 1..Len(array) |-> Alphabet[array[n]]]

RECURSIVE DecimalValue(_)
\* The number a sequence of decimal digits denotes.
DecimalValue(text) ==
    IF text = <<>> THEN 0
    ELSE LET last_digit == CHOOSE k \in 0..9 : Decimal(k) = T(text[Len(text)])
         IN  DecimalValue(SubSeq(text, 1, Len(text) - 1)) * 10 + last_digit

\* serde_json parsing a JSON text into a Value.
json_from_string(text) ==
    CASE text = T("null") -> JNull
      [] Head(text) = "\"" -> JStr(SubSeq(text, 2, Len(text) - 1))
      [] OTHER -> JU64(<<DecimalValue(text), 0, 0, 0>>)

\* impl Serialize for Body, and serialize_field("body", &self.body) on the
\* Option: None is written as null.
serialize_body(body) ==
    CASE body.kind = "None" -> NullDoc
      [] body.kind = "Json" -> EntryDoc("Json", json_to_string(body.json), EmptyMap, <<>>)
      [] body.kind = "Form" -> EntryDoc("Form", <<>>, body.kv, <<>>)
      [] OTHER -> EntryDoc("Bytes", <<>>, EmptyMap, bytes_to_array(body.bytes))

\* impl Serialize for Request: url, method, headers as a vector of pairs,
\* body; meta is not written.
serialize(r) ==
    [url |-> r.url, method |-> r.method,
     headers |-> LET order == CHOOSE o \in Orders(DOMAIN r.headers) : TRUE
                 IN  [n \in 1..Len(order) |-> <<order[n], r.headers[order[n]]>>],
     body |-> serialize_body(r.body)]

\* impl Deserialize for Body (BodyVisitor::visit_map), reached through
\* map.next_value::<Body>(): deserialize_map fails on null.  order is the
\* iteration order of the DashMap a Form is rebuilt in.
deserialize_body(doc, order) ==
    IF doc.null THEN [ok |-> FALSE, body |-> NoBody]
    ELSE CASE doc.key = "Json" -> [ok |-> TRUE, body |-> BodyJson(json_from_string(doc.text))]
           [] doc.key = "Form" -> [ok |-> TRUE, body |-> BodyForm(doc.object, order)]
           [] doc.key = "Bytes" -> [ok |-> TRUE, body |-> BodyBytes(array_to_bytes(doc.array))]
           [] OTHER -> [ok |-> FALSE, body |-> NoBody]

RECURSIVE headers_from_vec(_, _)
\* The loop that rebuilds the HeaderMap, skipping invalid names.
headers_from_vec(vec, n) ==
    IF n > Len(vec) THEN EmptyMap
    ELSE IF header_name_ok(vec[n][1])
         THEN map_insert(headers_from_vec(vec, n + 1), vec[n][1], vec[n][2])
         ELSE headers_from_vec(vec, n + 1)

\* impl Deserialize for Request (RequestVisitor::visit_map): Url::parse,
\* Method::from_str, the headers, the body, and meta: DashMap::new().
deserialize(doc, order) ==
    LET b == deserialize_body(doc.body, order)
    IN  [ok |-> b.ok /\ doc.url \in Urls /\ doc.method \in Methods,
         r |-> [url |-> doc.url, method |-> doc.method,
                headers |-> headers_from_vec(doc.headers, 1),
                body |-> b.body, meta |-> EmptyMap]]

\* The record of the last call on the request.
ReqCall(op, arg, outcome) == [op |-> op, arg |-> arg, outcome |-> outcome]

\* The request is still owned by the caller: the last call neither consumed
\* it with an Err nor panicked.
ReqLive == rlast.outcome \notin {"err", "panic"}

\* The retry counter is below the bound of the exploration, or at u32::MAX.
RetryInRange(r) ==
    LET c == get_retry_attempts(r)
    IN  c = <<65535, 65535>> \/ (c[2] = 0 /\ c[1] < MaxRetries)

ReqInit ==
    /\ FilterIdle /\ RaceIdle /\ CacheIdle /\ EmaIdle
    /\ checks \in BOOLEAN
    /\ \E url \in Urls : req = request_new(url)
    /\ rlast = ReqCall("new", <<>>, "ok")

ReqNew(url) ==
    /\ req' = request_new(url)
    /\ rlast' = ReqCall("new", <<>>, "ok")
    /\ UNCHANGED <<checks, filterVars, raceVars, cacheVars, emaVars>>

WithMethod(method) ==
    /\ ReqLive
    /\ req' = with_method(req, method)
    /\ rlast' = ReqCall("with_method", method, "ok")
    /\ UNCHANGED <<checks, filterVars, raceVars, cacheVars, emaVars>>

WithHeader(name, value) ==
    /\ ReqLive
    /\ IF header_name_ok(name)
       THEN /\ req' = [req EXCEPT !.headers = map_insert(@, name, value)]
            /\ rlast' = ReqCall("with_header", <<name, value>>, "ok")
       ELSE /\ req' = req
            /\ rlast' = ReqCall("with_header", <<name, value>>, "err")
    /\ UNCHANGED <<checks, filterVars, raceVars, cacheVars, emaVars>>

WithBody(body) ==
    /\ ReqLive
    /\ req' = with_body(req, body)
    /\ rlast' = ReqCall("with_body", body, "ok")
    /\ UNCHANGED <<checks, filterVars, raceVars, cacheVars, emaVars>>

WithJson(json) ==
    /\ ReqLive
    /\ req' = with_json(req, json)
    /\ rlast' = ReqCall("with_json", BodyJson(json), "ok")
    /\ UNCHANGED <<checks, filterVars, raceVars, cacheVars, emaVars>>

WithForm(form) ==
    /\ ReqLive
    /\ req' = with_form(req, form)
    /\ rlast' = ReqCall("with_form", form, "ok")
    /\ UNCHANGED <<checks, filterVars, raceVars, cacheVars, emaVars>>

WithBytes(bytes) ==
    /\ ReqLive
    /\ req' = with_bytes(req, bytes)
    /\ rlast' = ReqCall("with_bytes", BodyBytes(bytes), "ok")
    /\ UNCHANGED <<checks, filterVars, raceVars, cacheVars, emaVars>>

WithMeta(key, value) ==
    /\ ReqLive
    /\ req' = with_meta(req, key, value)
    /\ rlast' = ReqCall("with_meta", <<key, value>>, "ok")
    /\ UNCHANGED <<checks, filterVars, raceVars, cacheVars, emaVars>>

GetRetryAttempts ==
    /\ ReqLive
    /\ rlast' = ReqCall("get_retry_attempts", get_retry_attempts(req), "ok")
    /\ UNCHANGED <<req, checks, filterVars, raceVars, cacheVars, emaVars>>

IncrementRetryAttempts ==
    /\ ReqLive
    /\ RetryInRange(req)
    /\ LET r == increment_retry_attempts(req, checks)
       IN  /\ req' = r.r
           /\ rlast' = ReqCall("increment_retry_attempts", get_retry_attempts(req),
                               IF r.panic THEN "panic" ELSE "ok")
    /\ UNCHANGED <<checks, filterVars, raceVars, cacheVars, emaVars>>

Fingerprint ==
    /\ ReqLive
    /\ rlast' = ReqCall("fingerprint", fingerprint(req), "ok")
    /\ UNCHANGED <<req, checks, filterVars, raceVars, cacheVars, emaVars>>

\* The request is serialized and the text deserialized; the caller goes on
\* with the deserialized request, or keeps its own when that fails.
RoundTrip(order) ==
    /\ ReqLive
    /\ order \in Orders(DOMAIN req.body.kv)
    /\ LET d == deserialize(serialize(req), order)
       IN  /\ req' = IF d.ok THEN d.r ELSE req
           /\ rlast' = ReqCall("round_trip", req, IF d.ok THEN "ok" ELSE "de_err")
    /\ UNCHANGED <<checks, filterVars, raceVars, cacheVars, emaVars>>

ReqNext ==
    \/ \E order \in UNION {Orders(DOMAIN kv) : kv \in FormMaps \cup {EmptyMap}} : RoundTrip(order)
    \/ \E url \in Urls : ReqNew(url)
    \/ \E method \in Methods : WithMethod(method)
    \/ \E h \in HeaderArgs : WithHeader(h[1], h[2])
    \/ \E body \in JsonBodies \cup FormVals \cup BytesBodies : WithBody(body)
    \/ \E json \in JsonVals : WithJson(json)
    \/ \E form \in FormVals : WithForm(form)
    \/ \E bytes \in BytesVals : WithBytes(bytes)
    \/ \E m \in MetaArgs : WithMeta(m[1], m[2])
    \/ GetRetryAttempts
    \/ IncrementRetryAttempts
    \/ Fingerprint

SpecReq == ReqInit /\ [][ReqNext]_vars

\* ---------------------------------------------------------------- metrics
\* src/src/metrics.rs.  An Instant is a number of clock ticks, TicksPerSec
\* ticks to the second.  An f64 is the exact fraction <<n, d>> in lowest
\* terms, n >= 0 and d > 0; rounding is not modelled.
TicksPerSec == 2

RECURSIVE Gcd(_, _)
Gcd(a, b) == IF b = 0 THEN a ELSE Gcd(b, a % b)

Frac(n, d) == LET g == Gcd(n, d) IN <<n \div g, d \div g>>

\* usize as f64
f64_of(k) == <<k, 1>>
f64_add(x, y) == Frac(x[1] * y[2] + y[1] * x[2], x[2] * y[2])
f64_sub(x, y) == Frac(x[1] * y[2] - y[1] * x[2], x[2] * y[2])
f64_mul(x, y) == Frac(x[1] * y[1], x[2] * y[2])
f64_div(x, y) == Frac(x[1] * y[2], x[2] * y[1])
f64_ge(x, y) == x[1] * y[2] >= y[1] * x[2]

\* Instant::duration_since: zero when earlier is the later instant.
duration_since(now, earlier) == IF now >= earlier THEN now - earlier ELSE 0

\* Duration::as_secs_f64
as_secs_f64(ticks) == Frac(ticks, TicksPerSec)

\* The alpha values given to new and the counts given to update.
AlphaChoices == {<<1, 2>>, <<1, 4>>}
CountArgs == {0, 1, 2}

\* The threads that share the moving average.
Updaters == {1, 2}

\* ExpMovingAverage::new(alpha), at instant now.
ema_new(alpha, now) ==
    [alpha |-> alpha, rate |-> f64_of(0), last_update |-> now, event_count |-> 0]

\* update that recomputes only after more than a second.
update_after(e, count, now) ==
    LET event_count == e.event_count + count
        time_delta == as_secs_f64(duration_since(now, e.last_update))
    IN  IF ~f64_ge(f64_of(1), time_delta)
        THEN LET current_rate == f64_div(f64_of(event_count), time_delta)
             IN  [e EXCEPT !.rate = f64_add(f64_mul(e.alpha, current_rate),
                                            f64_mul(f64_sub(f64_of(1), e.alpha), e.rate)),
                           !.event_count = 0,
                           !.last_update = now]
        ELSE [e EXCEPT !.event_count = event_count]

\* ExpMovingAverage::update(count), with now read before the locks were
\* taken: the body under the last_update and event_count write locks.
update(e, count, now) ==
    LET event_count == e.event_count + count
        time_delta == as_secs_f64(duration_since(now, e.last_update))
    IN  IF f64_ge(time_delta, f64_of(1))
        THEN LET current_rate == f64_div(f64_of(event_count), time_delta)
             IN  [e EXCEPT !.rate = f64_add(f64_mul(e.alpha, current_rate),
                                            f64_mul(f64_sub(f64_of(1), e.alpha), e.rate)),
                           !.event_count = 0,
                           !.last_update = now]
        ELSE [e EXCEPT !.event_count = event_count]

\* A thread that is not inside update.
NotInUpdate == [pc |-> "idle", count |-> 0, now |-> 0]

EmaInit ==
    /\ clock = 0
    /\ \E alpha \in AlphaChoices : ema = ema_new(alpha, 0)
    /\ ethr = [t \in Updaters |-> NotInUpdate]
    /\ FilterIdle /\ RaceIdle /\ CacheIdle /\ ReqIdle

\* Time passes.
EmaTick ==
    /\ clock < MaxClock
    /\ clock' = clock + 1
    /\ UNCHANGED <<ema, ethr, filterVars, raceVars, cacheVars, reqVars>>

\* Thread t enters update(count): let now = Instant::now().
EmaCall(t, count) ==
    /\ ethr[t].pc = "idle"
    /\ ethr' = [ethr EXCEPT ![t] = [pc |-> "lock", count |-> count, now |-> clock]]
    /\ UNCHANGED <<ema, clock, filterVars, raceVars, cacheVars, reqVars>>

\* Thread t takes the last_update and event_count write locks, runs the
\* body and returns.  No other code takes these locks, so the body is one
\* step.
EmaUpdate(t) ==
    /\ ethr[t].pc = "lock"
    /\ ema.event_count + ethr[t].count <= MaxEvents
    /\ ema' = update(ema, ethr[t].count, ethr[t].now)
    /\ ethr' = [ethr EXCEPT ![t] = NotInUpdate]
    /\ UNCHANGED <<clock, filterVars, raceVars, cacheVars, reqVars>>

EmaNext ==
    \/ EmaTick
    \/ \E t \in Updaters, count \in CountArgs : EmaCall(t, count)
    \/ \E t \in Updaters : EmaUpdate(t)

SpecEma == EmaInit /\ [][EmaNext]_vars

\* ------------------------------------------------------ shared vocabulary
\* Storage bit p of bits holds 1.
BitSet(bits, p) ==
    /\ p >= 0
    /\ p \div WordBits < Len(bits)
    /\ (p % WordBits) \in bits[p \div WordBits + 1]

\* All storage bit indices of the allocated words.
AllBits(bits) == 0..(Len(bits) * WordBits - 1)

\* The probe positions of item under the current configuration.
ProbesOf(item) == {get_bit_index(item, i) : i \in 0..(hash_functions - 1)}

\* A filter that satisfies the documented precondition of new.
WellFormed == status = "ready" /\ num_bits >= 1 /\ hash_functions >= 1

RECURSIVE AddAll(_, _, _)
\* The storage after add(s[n]), add(s[n+1]), ... on bits.
AddAll(bits, s, n) ==
    IF n > Len(s) THEN bits ELSE AddAll(add(bits, s[n]).bits, s, n + 1)

\* ------------------------------------------------------------------ C1
\* C1: no false negatives.  On a filter built with num_bits >= 1 and
\* hash_count >= 1, every key whose add has returned is reported by
\* might_contain, in the state right after the add and in every state after
\* later adds of other keys; a might_contain call on such a key returned true.
C1_NoFalseNegatives ==
    WellFormed =>
        /\ \A x \in added : might_contain(bit_set, x).ret = "true"
        /\ (last.op = "might_contain" /\ last.item \in added) => last.ret = "true"

\* A might_contain(x) call answered after x and then another key were added.
C1_Witness ==
    /\ WellFormed
    /\ last.op = "might_contain" /\ last.item \in added /\ last.ret = "true"
    /\ Cardinality(added) >= 2
    /\ hash_functions >= 2
    /\ \E y \in added : ProbesOf(y) # ProbesOf(last.item)

\* ------------------------------------------------------------------ C2
\* C2: new(0, k) is rejected at construction: no filter with num_bits = 0 is
\* ever handed out, and no operation reaches a remainder by zero.
C2_ZeroBitsRejected ==
    /\ status = "ready" => num_bits >= 1
    /\ status # "panicked"

\* ------------------------------------------------------------------ C3
\* C3: on every filter new has returned, add and might_contain return
\* normally for every key.
C3_OperationsTotal ==
    last.op \in {"add", "might_contain"} => last.ret # "panic"

\* ------------------------------------------------------------------ C4
\* C4: idempotence of add.  An add(x) that directly follows a returned add(x)
\* leaves the bit state as it was.
C4_AddIdempotent ==
    [][(/\ last.op = "add" /\ last.ret = "unit"
        /\ last'.op = "add" /\ last'.ret = "unit"
        /\ last'.item = last.item /\ last'.again)
       => bit_set' = bit_set]_vars

\* add(x) has been called again on a filter that only ever received x.
C4_Witness ==
    /\ WellFormed
    /\ hash_functions >= 2
    /\ last.op = "add" /\ last.ret = "unit" /\ last.again
    /\ added = {last.item}
    /\ \E p \in AllBits(bit_set) : BitSet(bit_set, p)

\* ------------------------------------------------------------------ C5
\* C5: insertion-order independence.  Whatever order the keys of added were
\* added in, the storage equals the storage obtained by adding them to a
\* fresh filter of the same configuration in any other order, and so does
\* every might_contain answer.
C5_OrderIndependent ==
    status = "ready" =>
        \A s \in Orders(added) :
            LET replay == AddAll(new_bit_set(num_bits), s, 1)
            IN  /\ replay = bit_set
                /\ \A x \in Keys :
                        might_contain(replay, x).ret = might_contain(bit_set, x).ret

\* Two keys with different probe positions in one word have both been added.
C5_Witness ==
    /\ WellFormed
    /\ Cardinality(added) >= 2
    /\ \E x, y \in added :
          \E p \in ProbesOf(x), q \in ProbesOf(y) :
              /\ p # q
              /\ p \div WordBits = q \div WordBits
              /\ p \notin ProbesOf(y)

\* ------------------------------------------------------------------ C6
\* C6: monotonic bits.  No step takes a storage bit from 1 to 0, and no step
\* removes a word.
C6_BitsMonotonic ==
    [][/\ Len(bit_set') >= Len(bit_set)
       /\ \A w \in 1..Len(bit_set) : bit_set[w] \subseteq bit_set'[w]]_vars

\* An add of a new key has run on a filter that already had bits set by another key.
C6_Witness ==
    /\ WellFormed
    /\ last.op = "add" /\ last.ret = "unit" /\ ~last.again
    /\ \E y \in added \ {last.item} :
          \E p \in ProbesOf(y) : p \notin ProbesOf(last.item) /\ BitSet(bit_set, p)

\* ------------------------------------------------------------------ C7
\* C7: every position the probe-position generator produces, for every key
\* and every probe index below hash_count, lies in [0, num_bits); so does
\* every index an add or might_contain call has computed.
C7_ProbeInRange ==
    (status = "ready" /\ num_bits >= 1) =>
        /\ \A item \in Keys : \A i \in 0..(hash_functions - 1) :
              get_bit_index(item, i) \in 0..(num_bits - 1)
        /\ \A n \in 1..Len(last.probes) : last.probes[n] \in 0..(num_bits - 1)

\* A call has computed two different positions on a filter whose last word is
\* only partly used.
C7_Witness ==
    /\ status = "ready"
    /\ num_bits % WordBits # 0
    /\ Len(last.probes) >= 2
    /\ last.probes[1] # last.probes[2]

\* ------------------------------------------------------------------ C8
\* C8: new allocates exactly ceil(num_bits / 64) words, all zero, and the
\* number of words stays ceil(num_bits / 64).
C8_WordCount ==
    status # "unbuilt" =>
        /\ Len(bit_set) = CeilWords(num_bits)
        /\ last.op = "new" => \A w \in 1..Len(bit_set) : bit_set[w] = {}

\* ------------------------------------------------------------------ C9
\* C9: a returned might_contain(key) is true exactly when all hash_count probe
\* positions of key hold 1, and it stops at the first probed bit that is 0.
C9_MightContainIsConjunction ==
    (last.op = "might_contain" /\ last.ret # "panic") =>
        /\ (last.ret = "true") <=>
              \A i \in 0..(hash_functions - 1) :
                  BitSet(bit_set, get_bit_index(last.item, i))
        /\ \A n \in 1..Len(last.probes) :
              /\ last.probes[n] = get_bit_index(last.item, n - 1)
              /\ n < Len(last.probes) => BitSet(bit_set, last.probes[n])
        /\ last.ret = "true" => Len(last.probes) = hash_functions
        /\ last.ret = "false" =>
              /\ Len(last.probes) \in 1..hash_functions
              /\ ~BitSet(bit_set, last.probes[Len(last.probes)])

\* might_contain found its first probed bit set and returned false at the
\* second, one probe before the last.
C9_Witness ==
    /\ WellFormed
    /\ last.op = "might_contain" /\ last.ret = "false"
    /\ Len(last.probes) = 2
    /\ Len(last.probes) < hash_functions

\* ------------------------------------------------------------------ C10
\* C10: a returned add(key) leaves every probe position of key at 1, leaves
\* every other storage bit as it was, keeps the number of words, and turns at
\* most hash_count bits from 0 to 1.
C10_AddFrame ==
    [][(last'.op = "add" /\ last'.ret = "unit" /\ status = "ready") =>
          LET item == last'.item
              probes == {get_bit_index(item, i) : i \in 0..(hash_functions - 1)}
              flipped == {p \in AllBits(bit_set') :
                              BitSet(bit_set', p) /\ ~BitSet(bit_set, p)}
          IN  /\ Len(bit_set') = Len(bit_set)
              /\ \A p \in probes : BitSet(bit_set', p)
              /\ \A p \in AllBits(bit_set) \ probes :
                    BitSet(bit_set', p) <=> BitSet(bit_set, p)
              /\ Cardinality(flipped) <= hash_functions]_vars

\* An add has run that set two new bits next to a bit another key had set.
C10_Witness ==
    /\ WellFormed
    /\ hash_functions >= 2
    /\ last.op = "add" /\ last.ret = "unit" /\ ~last.again
    /\ Cardinality(ProbesOf(last.item)) >= 2
    /\ \E p \in AllBits(bit_set) : BitSet(bit_set, p) /\ p \notin ProbesOf(last.item)

\* ------------------------------------------------------------------ C11
\* C11: determinism.  A might_contain call leaves the storage, the
\* configuration and the hashers as they were, and a might_contain(x) that
\* directly follows a might_contain(x) returns the same answer from the same
\* probe positions.
C11_MightContainDeterministic ==
    [][(last'.op = "might_contain" /\ status = "ready") =>
          /\ bit_set' = bit_set
          /\ num_bits' = num_bits /\ hash_functions' = hash_functions
          /\ hash1' = hash1 /\ hash2' = hash2
          /\ (last.op = "might_contain" /\ last.item = last'.item) =>
                (last'.ret = last.ret /\ last'.probes = last.probes)]_vars

\* might_contain(x) has been repeated on a filter that holds another key and
\* answered false again.
C11_Witness ==
    /\ WellFormed
    /\ last.op = "might_contain" /\ last.again /\ last.ret = "false"
    /\ added # {} /\ last.item \notin added
    /\ Len(last.probes) >= 1

\* ------------------------------------------------------------------ C12
\* C12: degenerate boundary.  On new(1, 1), once one add has returned,
\* might_contain answers true for every key.
C12_OneBitSaturates ==
    (status = "ready" /\ num_bits = 1 /\ hash_functions = 1 /\ added # {}) =>
        /\ \A x \in Keys : might_contain(bit_set, x).ret = "true"
        /\ last.op = "might_contain" => last.ret = "true"

\* might_contain answered true on new(1, 1) for a key that was never added.
C12_Witness ==
    /\ status = "ready" /\ num_bits = 1 /\ hash_functions = 1
    /\ Cardinality(added) = 1
    /\ last.op = "might_contain" /\ last.item \notin added /\ last.ret = "true"

\* ------------------------------------------------------------------ C13
\* C13: num_bits and hash_count are fixed at construction.  No step taken on
\* a constructed filter changes num_bits, hash_functions or the number of
\* words.
C13_ConfigurationFixed ==
    [][status # "unbuilt" =>
          /\ num_bits' = num_bits
          /\ hash_functions' = hash_functions
          /\ Len(bit_set') = Len(bit_set)]_vars

\* Adds and a might_contain have run on a filter whose num_bits is below its
\* allocated capacity.
C13_Witness ==
    /\ WellFormed
    /\ num_bits < Len(bit_set) * WordBits
    /\ Cardinality(added) >= 2
    /\ last.op = "might_contain"

\* ------------------------------------------------------------------ C14
\* C14: the answer of might_contain is decided by the bits alone.  For every
\* key, added or not, might_contain is true exactly when each of its probe
\* positions is a probe position of some added key; so a key that was never
\* added is reported true as soon as the added keys cover its positions.
C14_AnswerFromBitsOnly ==
    WellFormed =>
        LET covered == UNION {ProbesOf(y) : y \in added}
        IN  /\ \A x \in Keys :
                  (might_contain(bit_set, x).ret = "true") <=> (ProbesOf(x) \subseteq covered)
            /\ (last.op = "might_contain") =>
                  ((last.ret = "true") <=> (ProbesOf(last.item) \subseteq covered))

\* A false positive on a filter of more than one bit: might_contain answered
\* true for a key that was never added.
C14_Witness ==
    /\ WellFormed
    /\ num_bits > 1
    /\ last.op = "might_contain" /\ last.ret = "true"
    /\ last.item \notin added

\* ------------------------------------------------------------------ C15
\* C15: the filter is not internally thread-safe.  When threads run add on
\* one filter with no lock around it, a probe bit of a key whose add has
\* returned can be 0 afterwards, and that happens only through the data race
\* on a shared word: a thread storing back a word it loaded before another
\* thread's store to the same word.
C15_LostBitOnlyByRace ==
    (\E x \in added : \E p \in ProbesOf(x) : ~BitSet(bit_set, p)) => raced

\* Every thread has returned from add, and a probe bit of an added key is 0:
\* a bit set by one add was lost, and might_contain of that key is now false.
C15_Witness ==
    /\ \A t \in Threads : thr[t].pc = "done"
    /\ raced
    /\ \E x \in added :
          /\ \E p \in ProbesOf(x) : ~BitSet(bit_set, p)
          /\ might_contain(bit_set, x).ret = "false"

\* ------------------------------------------------------------------ C17
\* C17: a get_cached_selector(s) call that has returned gave Some(selector)
\* with the compiled s if s parses, and the cache then holds an entry for s;
\* it gave None if s does not parse.  Strings that do not parse are never
\* cached: the cache changes only by the insert of a thread whose string
\* parsed, and that insert adds the thread's own entry.
C17_CachedSelector ==
    /\ [](/\ \A t \in Threads :
                cthr[t].pc = "returned" =>
                    IF cthr[t].s \in ParsableStrs
                    THEN /\ cthr[t].ret = Some(Compiled(cthr[t].s))
                         /\ cthr[t].s \in DOMAIN cache
                    ELSE cthr[t].ret = None
          /\ DOMAIN cache \subseteq ParsableStrs)
    /\ [][cache' # cache =>
            \E t \in Threads :
                /\ cthr[t].pc = "insert" /\ cthr'[t].pc = "unlock"
                /\ cthr[t].s \in ParsableStrs
                /\ cache' = map_insert(cache, cthr[t].s, Compiled(cthr[t].s))]_vars

\* One thread got Some for a string it compiled and cached itself, another
\* got None for a string that does not parse, and the cache holds only the
\* first string.
C17_Witness ==
    \E t, u \in Threads :
        /\ cthr[t].pc = "returned" /\ cthr[t].s \in ParsableStrs
        /\ cthr[t].ret.some /\ cthr[t].selector = Compiled(cthr[t].s)
        /\ cthr[u].pc = "returned" /\ cthr[u].s \notin ParsableStrs
        /\ ~cthr[u].ret.some
        /\ DOMAIN cache = {cthr[t].s}

\* ------------------------------------------------------------------ C18
\* d is exactly one more than c, as numbers.
OneMore(c, d) ==
    \/ c[1] < 65535 /\ d = <<c[1] + 1, c[2]>>
    \/ c[1] = 65535 /\ c[2] < 65535 /\ d = <<0, c[2] + 1>>

\* C18: get_retry_attempts returns 0 on a request without a retry_attempts
\* entry, and every increment_retry_attempts call returns and makes
\* get_retry_attempts return exactly one more than before.
C18_RetryCounter ==
    /\ [](/\ RETRY_ATTEMPTS_KEY \notin DOMAIN req.meta => get_retry_attempts(req) = <<0, 0>>
          /\ (rlast.op = "get_retry_attempts" /\ RETRY_ATTEMPTS_KEY \notin DOMAIN req.meta)
                => rlast.arg = <<0, 0>>)
    /\ [][rlast'.op = "increment_retry_attempts"
            => /\ rlast'.outcome = "ok"
               /\ OneMore(get_retry_attempts(req), get_retry_attempts(req'))]_vars

\* ------------------------------------------------------------------ C19
\* Two bodies with the same content: the same variant, and for a form the
\* same key/value pairs.
SameBody(b1, b2) ==
    /\ b1.kind = b2.kind /\ b1.json = b2.json /\ b1.kv = b2.kv /\ b1.bytes = b2.bytes

\* C19: the fingerprint depends on url, method and body only.  Whenever a
\* call (a builder call on this request, or new building another request)
\* leaves a request with the same url, method and body content, whatever its
\* headers and meta, the fingerprint is the same as before the call.
C19_FingerprintOfContent ==
    [][(/\ req'.url = req.url /\ req'.method = req.method
        /\ SameBody(req'.body, req.body))
          => fingerprint(req') = fingerprint(req)]_vars

\* ------------------------------------------------------------------ C20
\* C20: with_body, with_json, with_form and with_bytes set the body to the
\* one given and the method to POST whatever it was, and leave url, headers
\* and meta alone; with_method sets the method to the one given, also after
\* a body was set, and leaves the body alone.
C20_BodySetsPost ==
    [][/\ rlast'.op \in {"with_body", "with_json", "with_form", "with_bytes"}
            => /\ req'.body = rlast'.arg
               /\ req'.method = T("POST")
               /\ req'.url = req.url /\ req'.headers = req.headers /\ req'.meta = req.meta
       /\ rlast'.op = "with_method"
            => /\ req'.method = rlast'.arg
               /\ req'.body = req.body]_vars

\* with_method(PUT) was the last call on a request that has a body, headers
\* and meta: the method is PUT, not the POST with_body had set.
C20_Witness ==
    /\ rlast.op = "with_method" /\ rlast.outcome = "ok"
    /\ req.body.kind = "Form"
    /\ req.method = T("PUT")
    /\ req.headers # EmptyMap /\ req.meta # EmptyMap

\* ------------------------------------------------------------------ C21
\* C21: the position of probe i is ((h1 + i * h2) mod 2^64) mod num_bits
\* with h1 and h2 two hashes of the key alone: in every returned call, the
\* second hash used for probe i is the one used for probe 0, and the index
\* computed for probe i follows the formula with that one h2.
C21_ProbeFormula ==
    (status = "ready" /\ last.op \in {"add", "might_contain"})
        => \A n \in 1..Len(last.probes) :
              LET h1 == hash1[last.item]
                  h2 == hash2[<<last.item, 0>>]
              IN  /\ hash2[<<last.item, n - 1>>] = h2
                  /\ last.probes[n] =
                        rem_u64(wrapping_add(h1, wrapping_mul(n - 1, h2)), num_bits)

\* ------------------------------------------------------------------ C22
\* C22: bit addressing.  A returned add leaves each index p it computed at
\* 1 in word p / 64 at bit p % 64; every storage bit (word w, bit b) whose
\* index 64 * w + b is not one of those indices is as it was; and the test
\* of a key's indices succeeds after the add exactly when each of them was
\* set before or is one of the indices just set.
C22_BitAddressing ==
    [][(last'.op = "add" /\ last'.ret = "unit" /\ status = "ready") =>
          LET P == {last'.probes[n] : n \in 1..Len(last'.probes)}
          IN  /\ \A p \in P :
                    /\ p \div WordBits < Len(bit_set')
                    /\ (p % WordBits) \in bit_set'[p \div WordBits + 1]
              /\ \A w \in 1..Len(bit_set) : \A b \in 0..(WordBits - 1) :
                    (WordBits * (w - 1) + b) \notin P
                        => (b \in bit_set'[w] <=> b \in bit_set[w])
              /\ \A item \in Keys :
                    might_contain(bit_set', item).ret = "true"
                        <=> \A q \in ProbesOf(item) : q \in P \/ BitSet(bit_set, q)]_vars

\* An add has set an index of the second word while the same bit of the
\* first word stays 0; the other key has an index that was not set, and its
\* test is false.
C22_Witness ==
    /\ WellFormed
    /\ last.op = "add" /\ last.ret = "unit"
    /\ \E n \in 1..Len(last.probes) :
          /\ last.probes[n] >= WordBits
          /\ ~BitSet(bit_set, last.probes[n] - WordBits)
    /\ \E y \in Keys : /\ \E q \in ProbesOf(y) : q \notin ProbesOf(last.item)
                       /\ might_contain(bit_set, y).ret = "false"

\* ------------------------------------------------------------------ C23
\* C23: on a filter with num_bits >= 1 the word of every probe position is
\* an allocated word, so add never skips a bit and might_contain answers
\* false only at a bit that holds 0, and no bit of the padding (index >=
\* num_bits) is ever set.
C23_NoOutOfRange ==
    (status = "ready" /\ num_bits >= 1) =>
        /\ \A item \in Keys : \A i \in 0..(hash_functions - 1) :
              get_bit_index(item, i) \div WordBits < Len(bit_set)
        /\ \A n \in 1..Len(last.probes) : last.probes[n] \div WordBits < Len(bit_set)
        /\ (last.op = "add" /\ last.ret = "unit")
              => \A n \in 1..Len(last.probes) : BitSet(bit_set, last.probes[n])
        /\ (last.op = "might_contain" /\ last.ret = "false")
              => LET index == last.probes[Len(last.probes)]
                 IN  bit_is_zero(bit_set[index \div WordBits + 1], index % WordBits)
        /\ \A p \in AllBits(bit_set) : p >= num_bits => ~BitSet(bit_set, p)

\* An add has set a bit in the last word of a filter whose last word is
\* partly padding.
C23_Witness ==
    /\ WellFormed
    /\ Len(bit_set) >= 2 /\ num_bits % WordBits # 0
    /\ last.op = "add" /\ last.ret = "unit"
    /\ \E n \in 1..Len(last.probes) : last.probes[n] \div WordBits = Len(bit_set) - 1

\* ------------------------------------------------------------------ C24
\* C24: under every interleaving of get_cached_selector calls, the lock
\* never has a writer together with readers; an entry of the cache is never
\* removed or replaced; a thread runs cache.insert only while it holds the
\* write lock and only for a string that has no entry, so each string is
\* inserted at most once; the cache changes by no other step; and a caller
\* that has returned for a string that parses holds Some.
C24_CacheUnderWriteLock ==
    /\ [](/\ rw.writer # 0 => rw.readers = {}
          /\ \A t \in Threads :
                (cthr[t].pc = "returned" /\ cthr[t].s \in ParsableStrs) => cthr[t].ret.some)
    /\ [][/\ \A s \in DOMAIN cache : s \in DOMAIN cache' /\ cache'[s] = cache[s]
          /\ \A t \in Threads :
                (cthr[t].pc = "insert" /\ cthr'[t].pc = "unlock")
                    => /\ rw.writer = t /\ rw'.writer = t /\ rw.readers = {}
                       /\ cthr[t].s \notin DOMAIN cache
                       /\ DOMAIN cache' = DOMAIN cache \cup {cthr[t].s}
          /\ cache' # cache
                => \E t \in Threads : /\ cthr[t].pc = "insert" /\ cthr'[t].pc = "unlock"
                                      /\ rw.writer = t]_vars

\* Two threads missed the same string under the read lock and both compiled
\* it; one inserted it, the other found it in the re-check, and both hold
\* Some.
C24_Witness ==
    \E t, u \in Threads :
        /\ t # u
        /\ cthr[t].pc = "returned" /\ cthr[u].pc = "returned"
        /\ cthr[t].s = cthr[u].s /\ cthr[t].s \in ParsableStrs
        /\ cthr[t].selector = Compiled(cthr[t].s) /\ cthr[u].selector = Compiled(cthr[u].s)
        /\ cthr[t].ret.some /\ cthr[u].ret.some
        /\ DOMAIN cache = {cthr[t].s}

C26_FreshFilterEmpty ==
    (WellFormed /\ added = {}) =>
        /\ \A x \in Keys : might_contain(bit_set, x).ret = "false"
        /\ last.op = "might_contain" => last.ret = "false"
        /\ last.op # "add"

\* A might_contain call has returned false, at its first probe, on a fresh
\* filter of two words with two hash functions.
C26_Witness ==
    /\ WellFormed /\ added = {}
    /\ hash_functions >= 2 /\ Len(bit_set) >= 2
    /\ last.op = "might_contain" /\ last.ret = "false" /\ Len(last.probes) = 1

\* ------------------------------------------------------------------ C27
\* C27: positive answers are stable.  For every key y, added or not, if
\* might_contain(y) is true before a step it is true after it, whatever
\* add calls the step makes.
C27_PositiveStable ==
    [][\A y \in Keys :
          (status = "ready" /\ might_contain(bit_set, y).ret = "true")
              => (status' = "ready" /\ might_contain(bit_set', y).ret = "true")]_vars

\* A key that was never added tests true (a false positive), and the last
\* call was an add that set a bit outside that key's positions.
C27_Witness ==
    /\ WellFormed
    /\ last.op = "add" /\ last.ret = "unit"
    /\ \E y \in Keys \ added :
          /\ might_contain(bit_set, y).ret = "true"
          /\ \E p \in ProbesOf(last.item) : p \notin ProbesOf(y)

\* ------------------------------------------------------------------ C28
\* C28: new accepts hash_count = 0, also together with num_bits = 0.  On
\* such a filter no call panics, every bit stays 0 whatever is added, and
\* might_contain answers true for every key, also before any add.
C28_ZeroHashCount ==
    (status # "unbuilt" /\ hash_functions = 0) =>
        /\ status = "ready"
        /\ last.ret # "panic"
        /\ \A w \in 1..Len(bit_set) : bit_set[w] = {}
        /\ \A x \in Keys : might_contain(bit_set, x).ret = "true"
        /\ last.op = "might_contain" => last.ret = "true"

\* might_contain has returned true on a filter with hash_count = 0 into
\* which nothing was added.
C28_Witness ==
    /\ status = "ready" /\ hash_functions = 0 /\ num_bits >= 1
    /\ added = {}
    /\ last.op = "might_contain" /\ last.ret = "true"

\* ------------------------------------------------------------------ C29
\* C29: serializing a request and deserializing the result gives a request
\* with the same url, method and body and an empty meta map, on which
\* get_retry_attempts returns 0.
C29_RoundTrip ==
    [][rlast'.op = "round_trip"
          => /\ rlast'.outcome = "ok"
             /\ req'.url = req.url /\ req'.method = req.method
             /\ SameBody(req'.body, req.body)
             /\ req'.meta = EmptyMap
             /\ get_retry_attempts(req') = <<0, 0>>]_vars
====
